---- MODULE Spec2Model ----
(***************************************************************************)
(* Model of the scraping core of the repository:                           *)
(*   src/war_room/scraper/scrape_engine.py  (fetcher, three source         *)
(*   adapters, persistence layer, anomaly detector, orchestrator).         *)
(*                                                                         *)
(* Abstractions, stated once:                                              *)
(*  - a fetched body is a record [kind, doc, items] that names the shape   *)
(*    of the text (empty, markup the parser rejects, a JSON document, a    *)
(*    page with product cards / a __NEXT_DATA__ script / ld+json scripts)  *)
(*    and lists the items it carries;                                      *)
(*  - an item is a record [shape, name, inner, pk, pv]: the shape of the   *)
(*    item itself, its name, the shape of the container that holds the     *)
(*    price (item_basic / price / offers / the card's elements), the kind  *)
(*    of the price leaf and its value;                                     *)
(*  - a Product keeps marketplace, name, price and timestamp; currency,    *)
(*    specs, sales and rating are carried through unchanged by the code    *)
(*    and are left out;                                                    *)
(*  - prices are integers, and the detector's float arithmetic is exact    *)
(*    rational arithmetic.                                                 *)
(***************************************************************************)
EXTENDS Integers, Sequences, FiniteSets, TLC

\* ------------------------------------------------------------------ bounds
MaxItems == 2        \* items carried by one fetched body
MaxResults == 2      \* largest max_results / limit passed to an adapter

\* ------------------------------------------------------- program constants
PriceScale == 100000 \* Shopee stores price * 10^5

VARIABLES
    call,          \* SpecAdapters: the last call of a fetcher/adapter function
    db_table,      \* durable store: the products table exists
    db_rows,       \* durable store: rows of the products table, in insert order
    csv_file,      \* export target: the rows of the file, in write order
    csv_passed,    \* history: the Records handed to completed save_to_csv calls
    pc,            \* scrape_all: position of the run ("idle" when none runs)
    keywords,      \* scrape_all: argument
    limit,         \* scrape_all: argument
    kw_i,          \* scrape_all: index of the keyword of the for loop
    all_products,  \* scrape_all: the aggregate
    log,           \* scrape_all: logging.error / logging.warning entries of the run
    invocations,   \* history: adapter invocations of the run, with their outcome
    clock,         \* dt.datetime.utcnow
    last,          \* the last call the caller completed, and what it returned
    persist_calls, \* history: persistence calls of the run, with their outcome
    writers,       \* SpecCsv: the save_to_csv calls in progress, per writer
    bot            \* SpecBot: the alerting loop of telegram_bot.py

\* ---------------------------------------------------------------- helpers
Min(a, b) == IF a < b THEN a ELSE b
Max(a, b) == IF a > b THEN a ELSE b

\* Python's seq[:n]
PySlice(seq, n) ==
    IF n >= 0 THEN SubSeq(seq, 1, Min(n, Len(seq)))
    ELSE SubSeq(seq, 1, Max(0, Len(seq) + n))

SeqsUpTo(S, n) == UNION {[1..k -> S] : k \in 0..n}

\* ------------------------------------------------------------ input domains
Item(shape, name, inner, pk, pv) ==
    [shape |-> shape, name |-> name, inner |-> inner, pk |-> pk, pv |-> pv]

\* items of a JSON payload (Lazada items, JD ld+json Product blocks)
JsonItems ==
    { Item("dict", "a", "dict", "num", 2),        \* well formed
      Item("dict", "b", "dict", "num", 1),        \* well formed
      Item("dict", "a", "dict", "absent", 0),     \* no price field
      Item("dict", "b", "dict", "badtext", 0),    \* price is non-numeric text
      Item("dict", "a", "other", "absent", 0),    \* price container of wrong shape
      Item("dict", "b", "dict", "num", -1) }      \* negative price

\* Shopee's API carries price * 10^5
ShopeeItems == { [i EXCEPT !.pv = i.pv * PriceScale] : i \in JsonItems }

\* ld+json scripts: Product blocks, blocks of another type, undecodable text
JdScripts ==
    JsonItems \cup { Item("other", "a", "dict", "num", 2),
                     Item("notjson", "a", "dict", "num", 2) }

\* product cards of Shopee's rendered search page
CardItems ==
    { Item("dict", "a", "dict", "numtext", 2),    \* both elements, "฿2"
      Item("dict", "b", "dict", "numtext", -1),   \* price text "-1"
      Item("dict", "a", "absent", "numtext", 2),  \* an element is missing
      Item("dict", "b", "dict", "badtext", 0) }   \* price text is not a number

Body(kind, doc, items) == [kind |-> kind, doc |-> doc, items |-> items]

None == Body("None", "na", <<>>)

PlainBodies ==
    { Body("empty", "na", <<>>),        \* ""
      Body("rejected", "na", <<>>),     \* markup html.parser rejects
      Body("plain_html", "na", <<>>) }  \* a page without any of the elements

ApiBodies ==
    PlainBodies
    \cup { Body("json", d, <<>>) : d \in {"nondict", "noitems", "itemsnull"} }
    \cup { Body("json", "items", s) : s \in SeqsUpTo(ShopeeItems, MaxItems) }

CardBodies ==
    PlainBodies \cup { Body("cards", "na", s) : s \in SeqsUpTo(CardItems, MaxItems) }

NextDataBodies ==
    PlainBodies
    \cup { Body("next_data", d, <<>>) :
              d \in {"notjson", "nondict", "noitems", "itemsnull"} }
    \cup { Body("next_data", "items", s) : s \in SeqsUpTo(JsonItems, MaxItems) }

LdJsonBodies ==
    PlainBodies \cup { Body("ld_json", "na", s) : s \in SeqsUpTo(JdScripts, MaxItems) }

Response(outcome, status, body) ==
    [outcome |-> outcome, status |-> status, body |-> body]

\* what requests.get can come back with for a set of bodies
Responses(bodies) ==
    { Response(o, 0, None) : o \in {"timeout", "conn_error"} }
    \cup { Response("response", 200, b) : b \in bodies }
    \cup { Response("response", s, Body("plain_html", "na", <<>>)) :
              s \in {204, 304, 404, 500} }

MaxResultsRange == 1..MaxResults

\* ----------------------------------------------------------------- Fetcher
\* resp.raise_for_status(): HTTPError for 4xx and 5xx, nothing otherwise
raise_for_status(status) == status >= 400 /\ status < 600

fetch_page(resp) ==
    IF resp.outcome # "response" THEN [ret |-> None, warned |-> TRUE]
    ELSE IF raise_for_status(resp.status) THEN [ret |-> None, warned |-> TRUE]
    ELSE [ret |-> resp.body, warned |-> FALSE]

\* `if data_text:` - None and "" are falsy
Truthy(text) == text.kind \notin {"None", "empty"}

\* --------------------------------------------------------- Record / Product
Product(marketplace, name, price, timestamp) ==
    [marketplace |-> marketplace, name |-> name, price |-> price,
     timestamp |-> timestamp]

Ret(raised, results, fetches, warnings) ==
    [raised |-> raised, results |-> results, fetches |-> fetches,
     warnings |-> warnings]

\* the record of one call of a fetcher / adapter function
Call(fn, r1, r2, max_results, body, ret) ==
    [fn |-> fn, r1 |-> r1, r2 |-> r2, max_results |-> max_results,
     body |-> body, ret |-> ret]

NoResponse == Response("none", 0, None)
NoCall == Call("none", NoResponse, NoResponse, 0, None, Ret(FALSE, <<>>, 0, 0))

\* BeautifulSoup(html, "html.parser") raises ParserRejectedMarkup
SoupRaises(html) == html.kind = "rejected"

\* ------------------------------------------------------------ parse_shopee
\* one iteration of the loop over data["items"]; TRUE when it raises
shopee_item_raises(item) ==
    \/ item.shape # "dict"                       \* item.get
    \/ item.inner = "other"                      \* model.get
    \/ item.inner = "dict" /\ item.pk \notin {"num", "absent"}  \* str / 100000.0

shopee_item_name(item) == IF item.inner = "absent" THEN "" ELSE item.name

shopee_item_price(item) ==
    IF item.inner = "absent" \/ item.pk = "absent" THEN 0 \div PriceScale
    ELSE item.pv \div PriceScale

RECURSIVE shopee_api_loop(_, _, _)
shopee_api_loop(items, results, now) ==
    IF items = <<>> THEN [raised |-> FALSE, results |-> results]
    ELSE IF shopee_item_raises(Head(items))
         THEN [raised |-> TRUE, results |-> results]
         ELSE shopee_api_loop(Tail(items),
                  Append(results,
                         Product("Shopee", shopee_item_name(Head(items)),
                                 shopee_item_price(Head(items)),
                                 now + Len(results))),
                  now)

\* lines 122-147: the JSON API strategy
shopee_primary(data_text, now) ==
    IF ~Truthy(data_text) THEN [raised |-> FALSE, results |-> <<>>, warned |-> FALSE]
    ELSE IF data_text.kind # "json"              \* json.JSONDecodeError, caught
         THEN [raised |-> FALSE, results |-> <<>>, warned |-> TRUE]
    ELSE IF data_text.doc = "nondict"            \* data.get: AttributeError
         THEN [raised |-> TRUE, results |-> <<>>, warned |-> FALSE]
    ELSE IF data_text.doc = "noitems"            \* data.get("items", [])
         THEN [raised |-> FALSE, results |-> <<>>, warned |-> FALSE]
    ELSE IF data_text.doc = "itemsnull"          \* for item in None: TypeError
         THEN [raised |-> TRUE, results |-> <<>>, warned |-> FALSE]
    ELSE LET r == shopee_api_loop(data_text.items, <<>>, now)
         IN  [raised |-> r.raised, results |-> r.results, warned |-> FALSE]

\* one iteration of the loop over the product cards; TRUE when it raises
shopee_card_raises(item) ==
    \/ item.inner # "dict"                       \* item.find(...) is None
    \/ item.pk # "numtext"                       \* float(price_text): ValueError

RECURSIVE shopee_html_loop(_, _, _)
shopee_html_loop(items, results, now) ==
    IF items = <<>> THEN [raised |-> FALSE, results |-> results]
    ELSE IF shopee_card_raises(Head(items))
         THEN [raised |-> TRUE, results |-> results]
         ELSE shopee_html_loop(Tail(items),
                  Append(results,
                         Product("Shopee", Head(items).name, Head(items).pv,
                                 now + Len(results))),
                  now)

\* lines 148-168: the HTML strategy
shopee_fallback(html, max_results, now) ==
    IF ~Truthy(html) THEN [raised |-> FALSE, results |-> <<>>]
    ELSE IF SoupRaises(html) THEN [raised |-> TRUE, results |-> <<>>]
    ELSE shopee_html_loop(
             PySlice(IF html.kind = "cards" THEN html.items ELSE <<>>, max_results),
             <<>>, now)

\* the fallback runs when the primary strategy left results empty
shopee_runs_fallback(results) == results = <<>>

parse_shopee(api_resp, search_resp, max_results, now) ==
    LET f1 == fetch_page(api_resp)
        p  == shopee_primary(f1.ret, now)
        w1 == (IF f1.warned THEN 1 ELSE 0) + (IF p.warned THEN 1 ELSE 0)
    IN  IF p.raised THEN Ret(TRUE, <<>>, 1, w1)
        ELSE IF ~shopee_runs_fallback(p.results) THEN Ret(FALSE, p.results, 1, w1)
        ELSE LET f2 == fetch_page(search_resp)
                 s  == shopee_fallback(f2.ret, max_results, now)
                 w2 == w1 + (IF f2.warned THEN 1 ELSE 0)
             IN  IF s.raised THEN Ret(TRUE, <<>>, 2, w2)
                 ELSE Ret(FALSE, s.results, 2, w2)

\* ------------------------------------------------------------ parse_lazada
lazada_item_raises(item) ==
    \/ item.shape # "dict"                       \* item.get
    \/ item.inner = "other"                      \* item.get("price", {}).get

lazada_item_price(item) ==
    IF item.inner = "absent" \/ item.pk = "absent" THEN 0 ELSE item.pv

\* the whole loop sits in one try: a failing item ends it, the records
\* appended so far stay in results
RECURSIVE lazada_loop(_, _, _)
lazada_loop(items, results, now) ==
    IF items = <<>> THEN [results |-> results, warned |-> FALSE]
    ELSE IF lazada_item_raises(Head(items))
         THEN [results |-> results, warned |-> TRUE]
         ELSE lazada_loop(Tail(items),
                  Append(results,
                         Product("Lazada", Head(items).name,
                                 lazada_item_price(Head(items)),
                                 now + Len(results))),
                  now)

parse_lazada(resp, max_results, now) ==
    LET f    == fetch_page(resp)
        html == f.ret
        w    == IF f.warned THEN 1 ELSE 0
    IN  IF ~Truthy(html) THEN Ret(FALSE, <<>>, 1, w)
        ELSE IF SoupRaises(html) THEN Ret(TRUE, <<>>, 1, w)
        ELSE IF html.kind # "next_data" THEN Ret(FALSE, <<>>, 1, w)   \* no script
        ELSE IF html.doc \in {"notjson", "nondict", "itemsnull"}      \* caught
             THEN Ret(FALSE, <<>>, 1, w + 1)
        ELSE IF html.doc = "noitems" THEN Ret(FALSE, <<>>, 1, w)
        ELSE LET r == lazada_loop(PySlice(html.items, max_results), <<>>, now)
             IN  Ret(FALSE, r.results, 1, w + (IF r.warned THEN 1 ELSE 0))

\* -------------------------------------------------------- parse_jd_central
\* the script is not a Product block: nothing happens, no exception
jd_script_ignored(script) == script.shape = "other"

\* the body of the try raises: the except clause continues with the next one
jd_script_raises(script) ==
    \/ script.shape = "notjson"                  \* json.loads
    \/ script.shape = "dict" /\ script.inner = "other"    \* offers.get
    \/ script.shape = "dict" /\ script.inner = "dict"
          /\ script.pk \notin {"num", "numtext", "absent"}   \* float(...)

jd_script_price(script) ==
    IF script.inner = "absent" \/ script.pk = "absent" THEN 0 ELSE script.pv

\* the break test after an append
jd_breaks(results, max_results) == Len(results) >= max_results

RECURSIVE jd_loop(_, _, _, _)
jd_loop(scripts, results, max_results, now) ==
    IF scripts = <<>> THEN results
    ELSE IF jd_script_ignored(Head(scripts)) \/ jd_script_raises(Head(scripts))
         THEN jd_loop(Tail(scripts), results, max_results, now)
         ELSE LET r == Append(results,
                           Product("JD Central", Head(scripts).name,
                                   jd_script_price(Head(scripts)),
                                   now + Len(results)))
              IN  IF jd_breaks(r, max_results) THEN r
                  ELSE jd_loop(Tail(scripts), r, max_results, now)

parse_jd_central(resp, max_results, now) ==
    LET f    == fetch_page(resp)
        html == f.ret
        w    == IF f.warned THEN 1 ELSE 0
    IN  IF ~Truthy(html) THEN Ret(FALSE, <<>>, 1, w)
        ELSE IF SoupRaises(html) THEN Ret(TRUE, <<>>, 1, w)
        ELSE Ret(FALSE,
                 jd_loop(IF html.kind = "ld_json" THEN html.items ELSE <<>>,
                         <<>>, max_results, now),
                 1, w)

\* ======================================================== Persistence Layer
\* CREATE TABLE IF NOT EXISTS products (...): the rows are left alone
create_tables(table, rows) == [table |-> TRUE, rows |-> rows]

\* executemany(INSERT ...): one new row per Product, after the existing rows;
\* `if not products: return` comes before the connection is opened;
\* INSERT into a store without the table raises sqlite3.OperationalError
\* Product.as_tuple(): the columns of the row of one Product
as_tuple(p) ==
    [timestamp |-> p.timestamp, marketplace |-> p.marketplace,
     name |-> p.name, price |-> p.price]

\* mutant: the batch replaces the rows of the table
save_to_db_replacing(products, table, rows) ==
    IF products = <<>> THEN [raised |-> FALSE, rows |-> rows]
    ELSE IF ~table THEN [raised |-> TRUE, rows |-> rows]
    ELSE [raised |-> FALSE,
          rows |-> [i \in 1..Len(products) |-> as_tuple(products[i])]]

save_to_db(products, table, rows) ==
    IF products = <<>> THEN [raised |-> FALSE, rows |-> rows]
    ELSE IF ~table THEN [raised |-> TRUE, rows |-> rows]
    ELSE [raised |-> FALSE,
          rows |-> rows \o [i \in 1..Len(products) |-> as_tuple(products[i])]]

\* rows of the export file: the header row or the row of one Product
NoProduct == Product("", "", 0, 0)
HeaderRow == [kind |-> "header", rec |-> NoProduct]
csv_row(p) == [kind |-> "data", rec |-> p]

RECURSIVE csv_rows(_)
csv_rows(products) ==
    IF products = <<>> THEN <<>>
    ELSE <<csv_row(Head(products))>> \o csv_rows(Tail(products))

\* f.tell() of a file opened in append mode: every row written is at least
\* its line terminator, so the position is 0 exactly when no row was written
f_tell(file) == Len(file)

\* mutant: the header is written on every call
writes_header_always(file) == TRUE

writes_header(file) == f_tell(file) = 0

save_to_csv(products, file) ==
    (IF writes_header(file) THEN file \o <<HeaderRow>> ELSE file)
        \o csv_rows(products)

\* ========================================================= Anomaly Detector
ThresholdDen == 100      \* thresholds are given in hundredths: 5 is 0.05

row_key(r) == <<r.marketplace, r.name>>

\* df.groupby(["marketplace", "name"])
group_keys(rows) == { row_key(rows[i]) : i \in 1..Len(rows) }

\* mutant: the rows are grouped by name only
group_rows_by_name(rows, key) == SelectSeq(rows, LAMBDA r : r.name = key[2])

group_rows(rows, key) == SelectSeq(rows, LAMBDA r : row_key(r) = key)

\* group.sort_values("timestamp"): ascending, rows of equal timestamp in
\* store order
insert_sorted(sorted, r) ==
    LET k == Cardinality({ i \in 1..Len(sorted) : sorted[i].timestamp <= r.timestamp })
    IN  SubSeq(sorted, 1, k) \o <<r>> \o SubSeq(sorted, k + 1, Len(sorted))

RECURSIVE sort_values(_)
sort_values(group) ==
    IF group = <<>> THEN <<>>
    ELSE insert_sorted(sort_values(SubSeq(group, 1, Len(group) - 1)),
                       group[Len(group)])

RECURSIVE sum_prices(_, _, _)
sum_prices(group, lo, hi) ==
    IF lo > hi THEN 0 ELSE group[lo].price + sum_prices(group, lo + 1, hi)

\* first row of the trailing window that ends at row i
window_start(i, window) == Max(1, i - window + 1)

\* group["price"].rolling(window, min_periods=1).mean() at row i, as the
\* fraction sum / count
rolling_mean(group, i, window) ==
    [sum   |-> sum_prices(group, window_start(i, window), i),
     count |-> i - window_start(i, window) + 1]

\* (rolling_mean - price) / rolling_mean as the fraction num / den
drop_pct(mean, price) ==
    [num |-> mean.sum - mean.count * price, den |-> mean.sum]

\* mutant: the comparison is strict
drop_above(drop, threshold) ==
    IF drop.den = 0 THEN drop.num > 0
    ELSE IF drop.den > 0 THEN drop.num * ThresholdDen > threshold * drop.den
    ELSE drop.num * ThresholdDen < threshold * drop.den

\* latest["drop_pct"] >= threshold_pct ; x/0 is NaN (0/0, never >=) or an
\* infinity of the sign of x
drop_at_least(drop, threshold) ==
    IF drop.den = 0 THEN drop.num > 0
    ELSE IF drop.den > 0 THEN drop.num * ThresholdDen >= threshold * drop.den
    ELSE drop.num * ThresholdDen <= threshold * drop.den

Anomaly(key, price, mean) ==
    [marketplace |-> key[1], name |-> key[2], current_price |-> price,
     rolling_sum |-> mean.sum, rolling_count |-> mean.count]

\* the body of the for loop over the groups: the anomaly of one group, if any
group_anomalies(rows, key, window, threshold) ==
    LET group  == sort_values(group_rows(rows, key))
        n      == Len(group)
        latest == group[n]
        mean   == rolling_mean(group, n, window)
    IN  IF drop_at_least(drop_pct(mean, latest.price), threshold)
        THEN {Anomaly(key, latest.price, mean)}
        ELSE {}

\* rolling(window=0, min_periods=1) is rejected by pandas (ValueError)
rolling_raises(window) == window < 1

DetRet(raised, anomalies) == [raised |-> raised, anomalies |-> anomalies]

detect_price_anomalies(table, rows, window, threshold) ==
    IF ~table THEN DetRet(TRUE, {})                \* no such table: products
    ELSE IF rows = <<>> THEN DetRet(FALSE, {})     \* df.empty
    ELSE IF rolling_raises(window) THEN DetRet(TRUE, {})
    ELSE DetRet(FALSE,
                UNION { group_anomalies(rows, key, window, threshold) :
                           key \in group_keys(rows) })

\* check_price_drop() of the alerting bot
BotWindow == 5
BotThreshold == 5

\* ============================================================= Orchestrator
LogEntry(level, who, kw) == [level |-> level, who |-> who, kw |-> kw]

\* mutant: the invocation is not guarded, its exception leaves the run
unguarded_extend(products, entries, ret, who, kw) ==
    [all_products |-> IF ret.raised THEN products ELSE products \o ret.results,
     log |-> entries,
     propagates |-> ret.raised]

\* try: all_products.extend(adapter(kw, max_results=limit))
\* except Exception as exc: logging.error(...)
guarded_extend(products, entries, ret, who, kw) ==
    IF ret.raised
    THEN [all_products |-> products,
          log |-> Append(entries, LogEntry("error", who, kw)),
          propagates |-> FALSE]
    ELSE [all_products |-> products \o ret.results,
          log |-> entries,
          propagates |-> FALSE]

\* mutant: the aggregate is persisted whether or not it is empty
persists_always(products) == TRUE

\* `if all_products:` after the loop
persists(products) == products # <<>>

Last(op, arg, raised, window, threshold, anomalies) ==
    [op |-> op, arg |-> arg, raised |-> raised, window |-> window,
     threshold |-> threshold, anomalies |-> anomalies]

NoLast == Last("none", <<>>, FALSE, 0, 0, {})

Invocation(who, kw, ret) == [who |-> who, kw |-> kw, ret |-> ret]

\* one call of create_tables / save_to_db / save_to_csv made by the run
PersistCall(fn, arg, raised) == [fn |-> fn, arg |-> arg, raised |-> raised]

\* mutant: an exception of a persistence call is swallowed
persistence_swallowed(raised) == FALSE

\* lines 405, 422, 423 stand outside any try: what a persistence call raises
\* leaves scrape_all
persistence_propagates(raised) == raised

\* no save_to_csv call in progress, alerting loop not started
NoWriters == <<>>
NoBot == [pc |-> "off"]

\* ------------------------------------------------ bounds of the run model
MaxBatch == 1        \* Products of one direct save_to_db / save_to_csv call
MaxClock == 2        \* no new call is started once the clock passed this

\* the keyword lists a run is started with
KeywordLists == { <<>>, <<"x">>, <<"x", "y">> }

\* the Products a caller hands to save_to_db / save_to_csv directly
DirectPrices == {600, 1000}

DirectBatches(now) ==
    { [i \in 1..Len(ps) |-> Product("Shopee", "a", ps[i], now + i - 1)] :
         ps \in SeqsUpTo(DirectPrices, MaxBatch) }

\* what the marketplaces answer during a run
GoodShopee == Item("dict", "a", "dict", "num", 2 * PriceScale)
GoodJson   == Item("dict", "a", "dict", "num", 2)

RunApiResponses ==
    { Response("timeout", 0, None),
      Response("response", 200, Body("json", "items", <<GoodShopee>>)),
      Response("response", 200, Body("json", "nondict", <<>>)) }

RunSearchResponses ==
    { Response("timeout", 0, None) }

RunLazadaResponses ==
    { Response("timeout", 0, None),
      Response("response", 200, Body("next_data", "items", <<GoodJson>>)),
      Response("response", 200, Body("rejected", "na", <<>>)) }

RunJdResponses ==
    { Response("timeout", 0, None),
      Response("response", 200, Body("ld_json", "na", <<GoodJson>>)),
      Response("response", 200, Body("rejected", "na", <<>>)) }

\* ------------------------------------------------------------------- Init
Init ==
    /\ call = NoCall
    /\ db_table = FALSE
    /\ db_rows = <<>>
    /\ csv_file = <<>>
    /\ csv_passed = <<>>
    /\ pc = "idle"
    /\ keywords = <<>>
    /\ limit = 0
    /\ kw_i = 0
    /\ all_products = <<>>
    /\ log = <<>>
    /\ invocations = <<>>
    /\ clock = 1
    /\ last = NoLast
    /\ persist_calls = <<>>
    /\ writers = NoWriters
    /\ bot = NoBot

run_vars == <<pc, keywords, limit, kw_i, all_products, log, invocations,
              persist_calls>>

CanStart == pc = "idle" /\ clock <= MaxClock

\* -------------------------------------------- calls made by a caller directly
\* available: the store / the disk can be opened; when it cannot, the call
\* raises before it has written anything
CreateTables ==
    /\ CanStart
    /\ \E available \in BOOLEAN :
          /\ db_table' = (IF available THEN create_tables(db_table, db_rows).table
                          ELSE db_table)
          /\ db_rows' = (IF available THEN create_tables(db_table, db_rows).rows
                         ELSE db_rows)
          /\ last' = Last("create_tables", <<>>, ~available, 0, 0, {})
    /\ UNCHANGED <<call, writers, bot, csv_file, csv_passed, run_vars, clock>>

SaveToDb ==
    /\ CanStart
    /\ \E products \in DirectBatches(clock), available \in BOOLEAN :
          LET r == save_to_db(products, db_table, db_rows)
              failed == products # <<>> /\ ~available
          IN  /\ db_rows' = (IF failed THEN db_rows ELSE r.rows)
              /\ last' = Last("save_to_db", products, failed \/ r.raised, 0, 0, {})
              /\ clock' = clock + Len(products)
    /\ UNCHANGED <<call, writers, bot, db_table, csv_file, csv_passed, run_vars>>

SaveToCsv ==
    /\ CanStart
    /\ \E products \in DirectBatches(clock), available \in BOOLEAN :
          /\ csv_file' = (IF available THEN save_to_csv(products, csv_file)
                          ELSE csv_file)
          /\ csv_passed' = (IF available THEN csv_passed \o products
                            ELSE csv_passed)
          /\ last' = Last("save_to_csv", products, ~available, 0, 0, {})
          /\ clock' = clock + Len(products)
    /\ UNCHANGED <<call, writers, bot, db_table, db_rows, run_vars>>

\* check_price_drop(): detect_price_anomalies(DB_PATH, window=5, threshold_pct=0.05)
CheckPriceDrop ==
    /\ pc = "idle"
    /\ LET d == detect_price_anomalies(db_table, db_rows, BotWindow, BotThreshold)
       IN  last' = Last("detect_price_anomalies", <<>>, d.raised,
                        BotWindow, BotThreshold, d.anomalies)
    /\ UNCHANGED <<call, writers, bot, db_table, db_rows, csv_file, csv_passed, run_vars, clock>>

\* `if not args.keywords: print(...); exit(1)` of the command line, which
\* ends the process before scrape_all is called
CliNoKeywords ==
    /\ CanStart
    /\ last' = Last("main", <<>>, TRUE, 0, 0, {})
    /\ UNCHANGED <<call, writers, bot, db_table, db_rows, csv_file, csv_passed,
                   run_vars, clock>>

\* ------------------------------------------------------------- scrape_all
\* mutant: the aggregate goes to the export only
AfterLoop_skipping_db(products) == IF persists(products) THEN "save_csv" ELSE "idle"

\* where the run goes once the for loop is over
AfterLoop(products) == IF persists(products) THEN "save_db" ELSE "idle"

\* the log of a run that leaves the loop
LoopExitLog(entries, products) ==
    IF persists(products) THEN entries
    ELSE Append(entries, LogEntry("warning", "scrape_all", ""))

\* line 405 and the entry into the loop
ScrapeAllBegin ==
    /\ CanStart
    /\ \E kws \in KeywordLists, lim \in {MaxResults}, available \in BOOLEAN :
          /\ keywords' = kws
          /\ limit' = lim
          /\ kw_i' = 1
          /\ all_products' = <<>>
          /\ invocations' = <<>>
          /\ persist_calls' = <<PersistCall("create_tables", <<>>, ~available)>>
          /\ db_table' = (IF available THEN create_tables(db_table, db_rows).table
                          ELSE db_table)
          /\ db_rows' = (IF available THEN create_tables(db_table, db_rows).rows
                         ELSE db_rows)
          /\ IF persistence_propagates(~available)
             THEN /\ pc' = "idle"
                  /\ log' = <<>>
                  /\ last' = Last("scrape_all", <<>>, TRUE, 0, 0, {})
             ELSE /\ pc' = (IF kws = <<>> THEN AfterLoop(<<>>) ELSE "shopee")
                  /\ log' = (IF kws = <<>> THEN LoopExitLog(<<>>, <<>>) ELSE <<>>)
                  /\ last' = (IF kws = <<>>
                              THEN Last("scrape_all", <<>>, FALSE, 0, 0, {})
                              ELSE NoLast)
    /\ UNCHANGED <<call, writers, bot, csv_file, csv_passed, clock>>

\* one guarded adapter invocation of the loop body: who is invoked, what it
\* returned, where the loop goes next
AdapterStep(who, ret, next_pc, next_kw) ==
    LET g == guarded_extend(all_products, log, ret, who, keywords[kw_i])
        done == next_pc = "exit"
    IN  /\ invocations' = Append(invocations, Invocation(who, keywords[kw_i], ret))
        /\ all_products' = g.all_products
        /\ clock' = clock + Len(ret.results)
        /\ IF g.propagates
           THEN /\ pc' = "idle"
                /\ log' = g.log
                /\ kw_i' = kw_i
                /\ last' = Last("scrape_all", <<>>, TRUE, 0, 0, {})
           ELSE /\ pc' = (IF done THEN AfterLoop(g.all_products) ELSE next_pc)
                /\ log' = (IF done THEN LoopExitLog(g.log, g.all_products) ELSE g.log)
                /\ kw_i' = next_kw
                /\ last' = (IF done /\ ~persists(g.all_products)
                            THEN Last("scrape_all", <<>>, FALSE, 0, 0, {})
                            ELSE NoLast)
        /\ UNCHANGED <<call, writers, bot, db_table, db_rows, csv_file, csv_passed,
                       keywords, limit, persist_calls>>

ScrapeShopee ==
    /\ pc = "shopee"
    /\ \E r1 \in RunApiResponses, r2 \in RunSearchResponses :
          AdapterStep("Shopee", parse_shopee(r1, r2, limit, clock), "lazada", kw_i)

ScrapeLazada ==
    /\ pc = "lazada"
    /\ \E r \in RunLazadaResponses :
          AdapterStep("Lazada", parse_lazada(r, limit, clock), "jd_central", kw_i)

ScrapeJdCentral ==
    /\ pc = "jd_central"
    /\ \E r \in RunJdResponses :
          AdapterStep("JD Central", parse_jd_central(r, limit, clock),
                      IF kw_i < Len(keywords) THEN "shopee" ELSE "exit", kw_i + 1)

\* line 422
ScrapeSaveDb ==
    /\ pc = "save_db"
    /\ \E available \in BOOLEAN :
          LET r == save_to_db(all_products, db_table, db_rows)
              failed == ~available \/ r.raised
          IN  /\ db_rows' = (IF failed THEN db_rows ELSE r.rows)
              /\ persist_calls' =
                    Append(persist_calls, PersistCall("save_to_db", all_products, failed))
              /\ pc' = (IF persistence_propagates(failed) THEN "idle" ELSE "save_csv")
              /\ last' = (IF persistence_propagates(failed)
                          THEN Last("scrape_all", <<>>, TRUE, 0, 0, {})
                          ELSE NoLast)
    /\ UNCHANGED <<call, writers, bot, db_table, csv_file, csv_passed, keywords,
                   limit, kw_i, all_products, log, invocations, clock>>

\* line 423
ScrapeSaveCsv ==
    /\ pc = "save_csv"
    /\ \E available \in BOOLEAN :
          /\ csv_file' = (IF available THEN save_to_csv(all_products, csv_file)
                          ELSE csv_file)
          /\ csv_passed' = (IF available THEN csv_passed \o all_products
                            ELSE csv_passed)
          /\ persist_calls' =
                Append(persist_calls, PersistCall("save_to_csv", all_products, ~available))
          /\ pc' = "idle"
          /\ last' = Last("scrape_all", <<>>, persistence_propagates(~available),
                          0, 0, {})
    /\ UNCHANGED <<call, writers, bot, db_table, db_rows, keywords, limit, kw_i,
                   all_products, log, invocations, clock>>

Next ==
    \/ CreateTables
    \/ SaveToDb
    \/ SaveToCsv
    \/ CheckPriceDrop
    \/ CliNoKeywords
    \/ ScrapeAllBegin
    \/ ScrapeShopee
    \/ ScrapeLazada
    \/ ScrapeJdCentral
    \/ ScrapeSaveDb
    \/ ScrapeSaveCsv

vars == <<call, db_table, db_rows, csv_file, csv_passed, pc, keywords, limit,
          kw_i, all_products, log, invocations, clock, last, persist_calls,
          writers, bot>>

Spec == Init /\ [][Next]_vars


\* ==================================================== detector specification
\* The detector on stores built from bounded observations: the history of
\* the rolling-mean example (four observations of 1000) or an empty table,
\* extended by up to MaxAppend observations that are newer or older than
\* everything stored, then read with every window and threshold.
MaxAppend == 2       \* observations appended to the initial history
MaxWindow == 5       \* largest window passed to the detector

DetMarketplaces == {"Shopee", "Lazada"}
DetPrices == {0, 600, 1000}
Thresholds == {-5, 0, 5, 25, 35}

ExampleHistory == [i \in 1..4 |-> as_tuple(Product("Shopee", "a", 1000, i))]

Appended(rows) ==
    IF Len(rows) >= 4 /\ SubSeq(rows, 1, 4) = ExampleHistory
    THEN Len(rows) - 4 ELSE Len(rows)

Timestamps(rows) == { rows[i].timestamp : i \in 1..Len(rows) }

Newest(rows) ==
    IF rows = <<>> THEN 1
    ELSE 1 + CHOOSE t \in Timestamps(rows) : \A u \in Timestamps(rows) : u <= t

Oldest(rows) ==
    IF rows = <<>> THEN 1
    ELSE (CHOOSE t \in Timestamps(rows) : \A u \in Timestamps(rows) : t <= u) - 1

InitDetect ==
    /\ call = NoCall
    /\ db_table = TRUE
    /\ db_rows \in {<<>>, ExampleHistory}
    /\ csv_file = <<>>
    /\ csv_passed = <<>>
    /\ pc = "idle"
    /\ keywords = <<>>
    /\ limit = 0
    /\ kw_i = 0
    /\ all_products = <<>>
    /\ log = <<>>
    /\ invocations = <<>>
    /\ clock = 0
    /\ last = NoLast
    /\ persist_calls = <<>>
    /\ writers = NoWriters
    /\ bot = NoBot

\* save_to_db of one observation
AppendObservation ==
    /\ Appended(db_rows) < MaxAppend
    /\ \E m \in DetMarketplaces, p \in DetPrices,
          t \in {Newest(db_rows), Oldest(db_rows)} :
          LET products == <<Product(m, "a", p, t)>>
          IN  /\ db_rows' = save_to_db(products, db_table, db_rows).rows
              /\ last' = Last("save_to_db", products, FALSE, 0, 0, {})
    /\ UNCHANGED <<call, writers, bot, db_table, csv_file, csv_passed, run_vars, clock>>

DetectPriceAnomalies ==
    /\ \E window \in 0..MaxWindow, threshold \in Thresholds :
          LET d == detect_price_anomalies(db_table, db_rows, window, threshold)
          IN  last' = Last("detect_price_anomalies", <<>>, d.raised,
                           window, threshold, d.anomalies)
    /\ UNCHANGED <<call, writers, bot, db_table, db_rows, csv_file, csv_passed, run_vars, clock>>

NextDetect ==
    \/ AppendObservation
    \/ DetectPriceAnomalies

SpecDetect == InitDetect /\ [][NextDetect]_vars

\* ===================================================== adapter specification
\* Each action is one call of a function of the scraper on inputs drawn from
\* the bounded domains; call records the inputs and what came back.
InitAdapters ==
    /\ call = NoCall
    /\ db_table = FALSE
    /\ db_rows = <<>>
    /\ csv_file = <<>>
    /\ csv_passed = <<>>
    /\ pc = "idle"
    /\ keywords = <<>>
    /\ limit = 0
    /\ kw_i = 0
    /\ all_products = <<>>
    /\ log = <<>>
    /\ invocations = <<>>
    /\ clock = 0
    /\ last = NoLast
    /\ persist_calls = <<>>
    /\ writers = NoWriters
    /\ bot = NoBot

rest_vars == <<db_table, db_rows, csv_file, csv_passed, pc, keywords, limit,
               kw_i, all_products, log, invocations, clock, last,
               persist_calls, writers, bot>>

CallFetchPage ==
    /\ call = NoCall
    /\ UNCHANGED rest_vars
    /\ \E r \in Responses(ApiBodies \cup CardBodies) :
        call' = Call("fetch_page", r, NoResponse, 0, fetch_page(r).ret,
                     Ret(FALSE, <<>>, 1, IF fetch_page(r).warned THEN 1 ELSE 0))

CallParseShopee ==
    /\ call = NoCall
    /\ UNCHANGED rest_vars
    /\ \E r1 \in Responses(ApiBodies), r2 \in Responses(CardBodies),
       m \in MaxResultsRange :
        call' = Call("parse_shopee", r1, r2, m, None, parse_shopee(r1, r2, m, 0))

CallParseLazada ==
    /\ call = NoCall
    /\ UNCHANGED rest_vars
    /\ \E r \in Responses(NextDataBodies), m \in MaxResultsRange :
        call' = Call("parse_lazada", r, NoResponse, m, None, parse_lazada(r, m, 0))

CallParseJdCentral ==
    /\ call = NoCall
    /\ UNCHANGED rest_vars
    /\ \E r \in Responses(LdJsonBodies), m \in MaxResultsRange :
        call' = Call("parse_jd_central", r, NoResponse, m, None,
                     parse_jd_central(r, m, 0))

NextAdapters ==
    \/ CallFetchPage
    \/ CallParseShopee
    \/ CallParseLazada
    \/ CallParseJdCentral

SpecAdapters == InitAdapters /\ [][NextAdapters]_vars

AdapterFns == {"parse_shopee", "parse_lazada", "parse_jd_central"}

\* ================================================ concurrent save_to_csv
\* Two callers of save_to_csv on one export file. The code takes no lock
\* (lines 349-357): the file is opened in append mode, f.tell() is read once
\* after the open, and the buffered rows reach the file when the `with` block
\* closes it, appended at whatever the end of the file is by then.
MaxCsvCalls == 3

Writers == {1, 2}

Writer(at, products, header, calls) ==
    [at |-> at, products |-> products, header |-> header, calls |-> calls]

IdleWriter(calls) == Writer("idle", <<>>, FALSE, calls)

InitCsv ==
    /\ call = NoCall
    /\ db_table = FALSE
    /\ db_rows = <<>>
    /\ csv_file = <<>>
    /\ csv_passed = <<>>
    /\ pc = "idle"
    /\ keywords = <<>>
    /\ limit = 0
    /\ kw_i = 0
    /\ all_products = <<>>
    /\ log = <<>>
    /\ invocations = <<>>
    /\ clock = 1
    /\ last = NoLast
    /\ persist_calls = <<>>
    /\ writers = [w \in Writers |-> IdleWriter(0)]
    /\ bot = NoBot

csv_rest == <<call, db_table, db_rows, pc, keywords, limit, kw_i, all_products,
              log, invocations, clock, last, persist_calls, bot>>

CsvCalls == writers[1].calls + writers[2].calls

\* lines 349-352: open(csv_path, "a") and the f.tell() == 0 test; the header
\* and the rows go to the writer's buffer
CsvOpen(w) ==
    /\ writers[w].at = "idle"
    /\ CsvCalls < MaxCsvCalls
    /\ \E products \in DirectBatches(clock) :
          writers' = [writers EXCEPT
                         ![w] = Writer("open", products, writes_header(csv_file),
                                       writers[w].calls + 1)]
    /\ UNCHANGED <<csv_file, csv_passed, csv_rest>>

\* the end of the `with` block: the buffer is flushed to the end of the file
CsvClose(w) ==
    /\ writers[w].at = "open"
    /\ csv_file' = csv_file
                     \o (IF writers[w].header THEN <<HeaderRow>> ELSE <<>>)
                     \o csv_rows(writers[w].products)
    /\ csv_passed' = csv_passed \o writers[w].products
    /\ writers' = [writers EXCEPT ![w] = IdleWriter(writers[w].calls)]
    /\ UNCHANGED csv_rest

NextCsv ==
    \/ \E w \in Writers : CsvOpen(w)
    \/ \E w \in Writers : CsvClose(w)

SpecCsv == InitCsv /\ [][NextCsv]_vars

\* ==================================================== telegram_bot.py main
\* The alerting loop, with the scraper appending to the store while it runs.
MaxIterations == 3
MaxStoreRows == 2

BotNames == {"a", "b"}

\* SELECT DISTINCT name FROM products
distinct_names(rows) == {rows[i].name : i \in 1..Len(rows)}

\* mutant: check_new_listings returns the names it has just announced
returns_new_products(current_products, new_products) == new_products

\* `return current_products` of check_new_listings, assigned to seen_products
returns_current_products(current_products, new_products) == current_products

\* check_new_listings(seen_products) on a store that can be read
check_new_listings(seen_products, rows) ==
    LET current_products == distinct_names(rows)
        new_products == current_products \ seen_products
    IN  [announced |-> new_products,
         ret |-> returns_current_products(current_products, new_products)]

\* at: where main is; seen: seen_products; the other fields are history:
\* startup (the names of the initial load), sent (send_telegram_message calls
\* made for a new listing, per name), delivered (names whose message reached
\* the chat), iter (iterations started), checks (check_new_listings calls
\* that returned), aborted (iterations ended by the except clause)
Bot(at, seen, startup, sent, delivered, iter, checks, aborted) ==
    [pc |-> at, seen |-> seen, startup |-> startup, sent |-> sent,
     delivered |-> delivered, iter |-> iter, checks |-> checks,
     aborted |-> aborted]

InitBot ==
    /\ call = NoCall
    /\ db_table = TRUE
    /\ db_rows \in {<<>>, <<as_tuple(Product("Shopee", "a", 600, 0))>>}
    /\ csv_file = <<>>
    /\ csv_passed = <<>>
    /\ pc = "idle"
    /\ keywords = <<>>
    /\ limit = 0
    /\ kw_i = 0
    /\ all_products = <<>>
    /\ log = <<>>
    /\ invocations = <<>>
    /\ clock = 1
    /\ last = NoLast
    /\ persist_calls = <<>>
    /\ writers = NoWriters
    /\ bot = Bot("off", {}, {}, [n \in BotNames |-> 0], {}, 0, 0, 0)

bot_rest == <<call, csv_file, csv_passed, pc, keywords, limit, kw_i,
              all_products, log, invocations, clock, last, persist_calls,
              writers>>

\* the scraper's save_to_db, in its own process
BotStoreAppend ==
    /\ Len(db_rows) < MaxStoreRows
    /\ \E n \in BotNames :
          db_rows' = save_to_db(<<Product("Shopee", n, 600, clock)>>,
                                db_table, db_rows).rows
    /\ UNCHANGED <<db_table, bot, bot_rest>>

\* lines 117-123: the initial load, outside the try of the loop; when the
\* store cannot be read main ends with the exception
BotStart ==
    /\ bot.pc = "off"
    /\ \E available \in BOOLEAN :
          bot' = IF available /\ db_table
                 THEN [bot EXCEPT !.pc = "price",
                                  !.seen = distinct_names(db_rows),
                                  !.startup = distinct_names(db_rows),
                                  !.iter = 1]
                 ELSE [bot EXCEPT !.pc = "crashed"]
    /\ UNCHANGED <<db_table, db_rows, bot_rest>>

\* the except clause of the loop (lines 129-130), then time.sleep
bot_aborts(b) == [b EXCEPT !.pc = "sleep", !.aborted = b.aborted + 1]

\* line 126
BotCheckPriceDrop ==
    /\ bot.pc = "price"
    /\ \E available \in BOOLEAN :
          LET d == detect_price_anomalies(db_table, db_rows, BotWindow, BotThreshold)
          IN  bot' = IF ~available \/ d.raised THEN bot_aborts(bot)
                     ELSE [bot EXCEPT !.pc = "reviews"]
    /\ UNCHANGED <<db_table, db_rows, bot_rest>>

\* line 127: fetch_recent_reviews returns [], so no message is sent
BotCheckReviews ==
    /\ bot.pc = "reviews"
    /\ bot' = [bot EXCEPT !.pc = "listings"]
    /\ UNCHANGED <<db_table, db_rows, bot_rest>>

\* line 128: seen_products = check_new_listings(seen_products); the read of
\* the store may raise, send_telegram_message never does (lines 47-51) but
\* the message may not get through
BotCheckNewListings ==
    /\ bot.pc = "listings"
    /\ \E available \in BOOLEAN :
          IF ~available \/ ~db_table
          THEN bot' = bot_aborts(bot)
          ELSE LET c == check_new_listings(bot.seen, db_rows)
               IN  \E got_through \in SUBSET c.announced :
                      bot' = [bot EXCEPT
                                !.pc = "sleep",
                                !.seen = c.ret,
                                !.sent = [n \in BotNames |->
                                            IF n \in c.announced THEN bot.sent[n] + 1
                                            ELSE bot.sent[n]],
                                !.delivered = bot.delivered \cup got_through,
                                !.checks = bot.checks + 1]
    /\ UNCHANGED <<db_table, db_rows, bot_rest>>

\* line 132 and the next turn of `while True`
BotSleep ==
    /\ bot.pc = "sleep"
    /\ bot.iter < MaxIterations
    /\ bot' = [bot EXCEPT !.pc = "price", !.iter = bot.iter + 1]
    /\ UNCHANGED <<db_table, db_rows, bot_rest>>

NextBot ==
    \/ BotStoreAppend
    \/ BotStart
    \/ BotCheckPriceDrop
    \/ BotCheckReviews
    \/ BotCheckNewListings
    \/ BotSleep

SpecBot == InitBot /\ [][NextBot]_vars

\* ================================================================== claims
AdapterNames == <<"Shopee", "Lazada", "JD Central">>

\* the run has been through its for loop: it is persisting, or it is over
\* and did more than fail to open the store at its start
LoopDone ==
    \/ pc \in {"save_db", "save_csv"}
    \/ pc = "idle" /\ last.op = "scrape_all" /\ ~last.raised
    \/ pc = "idle" /\ last.op = "scrape_all" /\ invocations # <<>>

\* the run returned to its caller without an exception
RunReturned == pc = "idle" /\ last.op = "scrape_all" /\ ~last.raised

RECURSIVE GatheredResults(_)
GatheredResults(invs) ==
    IF invs = <<>> THEN <<>>
    ELSE (IF Head(invs).ret.raised THEN <<>> ELSE Head(invs).ret.results)
             \o GatheredResults(Tail(invs))

RaisingInvocations(invs) == SelectSeq(invs, LAMBDA v : v.ret.raised)

ErrorEntries(entries) == SelectSeq(entries, LAMBDA e : e.level = "error")

IsSuffix(s, t) ==
    /\ Len(s) <= Len(t)
    /\ SubSeq(t, Len(t) - Len(s) + 1, Len(t)) = s

IsPrefix(s, t) ==
    /\ Len(s) <= Len(t)
    /\ SubSeq(t, 1, Len(s)) = s

Rows(products) == [i \in 1..Len(products) |-> as_tuple(products[i])]

\* C1: adapter isolation in scrape_all. Once a run has left the loop, each of
\* the three adapters was invoked for every keyword, in order, whatever
\* invocations raised; the aggregate is exactly the records returned by the
\* invocations that did not raise; there is one error entry per raising
\* invocation, naming it; and when the run has returned with a non-empty
\* aggregate, the store and the export end with that aggregate.
C1_AdapterIsolation ==
    LoopDone =>
        /\ Len(invocations) = 3 * Len(keywords)
        /\ \A k \in 1..Len(keywords) : \A j \in 1..3 :
              /\ invocations[3 * (k - 1) + j].who = AdapterNames[j]
              /\ invocations[3 * (k - 1) + j].kw = keywords[k]
        /\ all_products = GatheredResults(invocations)
        /\ Len(ErrorEntries(log)) = Len(RaisingInvocations(invocations))
        /\ \A i \in 1..Len(RaisingInvocations(invocations)) :
              /\ ErrorEntries(log)[i].who = RaisingInvocations(invocations)[i].who
              /\ ErrorEntries(log)[i].kw = RaisingInvocations(invocations)[i].kw
        /\ (RunReturned /\ all_products # <<>>) =>
              /\ IsSuffix(Rows(all_products), db_rows)
              /\ IsSuffix(csv_rows(all_products), csv_file)

\* a returned run over two keywords in which the first adapter raised for the
\* first keyword, and later invocations of both keywords still delivered
C1_Witness ==
    /\ RunReturned
    /\ Len(keywords) = 2
    /\ invocations[1].ret.raised
    /\ invocations[2].ret.results # <<>>
    /\ invocations[5].ret.raised
    /\ invocations[6].ret.results # <<>>
    /\ Len(all_products) = 2
    /\ IsSuffix(Rows(all_products), db_rows)

\* ---- claims about the adapters and the fetcher (SpecAdapters)
AdapterCalled == call.fn \in AdapterFns

CallItems == call.r1.body.items \o call.r2.body.items

\* an item whose price is present, parsable and not negative
HasValidPrice(item) ==
    /\ item.shape = "dict"
    /\ item.inner = "dict"
    /\ item.pk \in {"num", "numtext"}
    /\ item.pv >= 0

\* an item every field of which has the expected shape
WellFormed(item) ==
    /\ item.shape = "dict"
    /\ item.inner = "dict"
    /\ item.pk \in {"num", "numtext"}

\* C2: no source adapter raises past its own boundary, whatever the fetched
\* body is.
C2_AdaptersNeverRaise == AdapterCalled => ~call.ret.raised

\* C3: every Record an adapter emits has a price >= 0, and no Record is
\* emitted for an item without a valid price (so there are at most as many
\* Records as items with a valid price).
C3_PricesValid ==
    (AdapterCalled /\ ~call.ret.raised) =>
        /\ \A i \in 1..Len(call.ret.results) : call.ret.results[i].price >= 0
        /\ Len(call.ret.results) <= Len(SelectSeq(CallItems, HasValidPrice))

\* C4: an adapter returns at most max_results records.
C4_AtMostMaxResults ==
    (AdapterCalled /\ ~call.ret.raised) =>
        Len(call.ret.results) <= call.max_results

\* C5: a failure on one item skips only that item. When the first response
\* is delivered with no more items than max_results, the call does not raise
\* and it returns a record for every well-formed item of that response.
C5_ItemFailureSkipsOnlyItem ==
    (/\ AdapterCalled
     /\ call.r1.outcome = "response" /\ call.r1.status = 200
     /\ call.r1.body.kind \in {"json", "next_data", "ld_json"}
     /\ call.r1.body.items # <<>>
     /\ Len(call.r1.body.items) <= call.max_results) =>
        /\ ~call.ret.raised
        /\ Len(call.ret.results) >= Len(SelectSeq(call.r1.body.items, WellFormed))

\* C6: fetch_page returns the body only for a GET answered with a 2xx status,
\* and None with a warning for a transport error, a timeout or any other
\* status.
C6_FetchPageContract ==
    call.fn = "fetch_page" =>
        LET success == /\ call.r1.outcome = "response"
                       /\ call.r1.status >= 200 /\ call.r1.status < 300
        IN  /\ success => call.body = call.r1.body
            /\ ~success => (call.body = None /\ call.ret.warnings = 1)

\* ---- claims about the persistence layer (Spec)
\* C7: the store is append-only. Every step keeps the rows that were there,
\* in place; the table, once created, stays; a direct save_to_db of an empty
\* list changes nothing, one of n records that does not raise adds exactly
\* the rows of those records at the end, and so does the save of a run.
C7_StepAppendOnly ==
    /\ IsPrefix(db_rows, db_rows')
    /\ db_table => db_table'
    /\ (last'.op = "save_to_db" /\ last'.arg = <<>>) => db_rows' = db_rows
    /\ (last'.op = "save_to_db" /\ ~last'.raised) =>
          db_rows' = db_rows \o Rows(last'.arg)
    /\ (last'.op = "save_to_db" /\ last'.raised) => db_rows' = db_rows
    /\ last'.op \in {"create_tables", "detect_price_anomalies", "save_to_csv"} =>
          db_rows' = db_rows
    /\ (pc = "save_db" /\ pc' = "save_csv") =>
          db_rows' = db_rows \o Rows(all_products)
    /\ (pc # "save_db" /\ pc' # "idle" /\ pc' # pc) => db_rows' = db_rows

C7_StoreAppendOnly == [][C7_StepAppendOnly]_vars

\* a direct save_to_db that added its record to a store that already held rows
C7_Witness ==
    /\ last.op = "save_to_db"
    /\ ~last.raised
    /\ last.arg # <<>>
    /\ Len(db_rows) > Len(last.arg)
    /\ IsSuffix(Rows(last.arg), db_rows)

\* C8: export header policy. The export target starts zero-length; whatever
\* save_to_csv calls completed, the file is empty, or its first row is the
\* header, no other row is a header, and the rows after the header are the
\* rows of the Records passed, one each, in call order.
C8_ExportHeaderPolicy ==
    IF csv_file = <<>> THEN csv_passed = <<>>
    ELSE /\ csv_file[1] = HeaderRow
         /\ Len(csv_file) = 1 + Len(csv_passed)
         /\ \A i \in 1..Len(csv_passed) : csv_file[i + 1] = csv_row(csv_passed[i])
         /\ \A i \in 2..Len(csv_file) : csv_file[i] # HeaderRow

\* a save_to_csv of a Record onto a file that already held the header and
\* the Records of an earlier call
C8_Witness ==
    /\ last.op = "save_to_csv"
    /\ ~last.raised
    /\ last.arg # <<>>
    /\ Len(csv_file) > 1 + Len(last.arg)

\* ---- claims about the anomaly detector (SpecDetect)
Detected == last.op = "detect_price_anomalies" /\ ~last.raised

Flagged(key) ==
    \E a \in last.anomalies : a.marketplace = key[1] /\ a.name = key[2]

SeriesKeys == { <<db_rows[i].marketplace, db_rows[i].name>> : i \in 1..Len(db_rows) }

SeriesIndexes(key) ==
    { i \in 1..Len(db_rows) : db_rows[i].marketplace = key[1] /\ db_rows[i].name = key[2] }

\* the observation of the series with the greatest timestamp
LatestIndex(key) ==
    CHOOSE i \in SeriesIndexes(key) :
        \A j \in SeriesIndexes(key) : db_rows[j].timestamp <= db_rows[i].timestamp

\* the n most recent observations of the series
MostRecent(key, n) ==
    CHOOSE S \in SUBSET SeriesIndexes(key) :
        /\ Cardinality(S) = n
        /\ \A i \in S : \A j \in SeriesIndexes(key) \ S :
              db_rows[j].timestamp < db_rows[i].timestamp

RECURSIVE PriceSum(_)
PriceSum(S) ==
    IF S = {} THEN 0
    ELSE LET i == CHOOSE x \in S : TRUE
         IN  db_rows[i].price + PriceSum(S \ {i})

\* (mean - latest) / mean >= threshold / 100 for mean = total / n > 0,
\* cleared of its denominators; a mean of 0 gives no fraction to compare
DropReaches(key, window, threshold) ==
    LET n      == Min(window, Cardinality(SeriesIndexes(key)))
        total  == PriceSum(MostRecent(key, n))
        latest == db_rows[LatestIndex(key)].price
    IN  /\ total > 0
        /\ ThresholdDen * (total - n * latest) >= threshold * total

ExampleDrop == Append(ExampleHistory, as_tuple(Product("Shopee", "a", 600, 5)))
ExampleConstant == Append(ExampleHistory, as_tuple(Product("Shopee", "a", 1000, 5)))

SingleObservation(key) == Cardinality(SeriesIndexes(key)) = 1

\* C10 as stated: a series with exactly one observation is never reported,
\* for every window and every threshold, zero and negative ones included.
C10_SingleNeverFlagged ==
    last.op = "detect_price_anomalies" =>
        \A key \in SeriesKeys : SingleObservation(key) => ~Flagged(key)

\* C10 amended: a series with exactly one observation is never reported,
\* for every window and every threshold greater than zero.
C10_SingleNeverFlaggedPositive ==
    (last.op = "detect_price_anomalies" /\ last.threshold > 0) =>
        \A key \in SeriesKeys : SingleObservation(key) => ~Flagged(key)

\* a detection with a positive threshold that returned, on a store that holds
\* a one-observation series of a positive price next to a reported series
C10_Witness ==
    /\ Detected
    /\ last.threshold > 0
    /\ \E key \in SeriesKeys :
          /\ SingleObservation(key)
          /\ db_rows[LatestIndex(key)].price > 0
          /\ ~Flagged(key)
    /\ last.anomalies # {}


\* ---------------------------------------------------------------------------
LoopPcs == {"shopee", "lazada", "jd_central"}

WarningEntries(entries) == SelectSeq(entries, LAMBDA e : e.level = "warning")

\* the persistence calls of a run that returned with the aggregate products
WholeRunCalls(products) ==
    IF products = <<>>
    THEN << PersistCall("create_tables", <<>>, FALSE) >>
    ELSE << PersistCall("create_tables", <<>>, FALSE),
            PersistCall("save_to_db", products, FALSE),
            PersistCall("save_to_csv", products, FALSE) >>

C11_Step ==
    /\ (pc \in LoopPcs \/ pc' \in LoopPcs) =>
          db_rows' = db_rows /\ csv_file' = csv_file
    /\ \A i \in 1..Len(persist_calls') :
          persist_calls'[i].fn # "create_tables" =>
             /\ Len(invocations') = 3 * Len(keywords')
             /\ all_products' # <<>>
             /\ persist_calls'[i].arg = all_products'
    /\ RunReturned' =>
          /\ persist_calls' = WholeRunCalls(all_products')
          /\ all_products' = <<>> =>
                Len(WarningEntries(log')) = 1 /\ csv_file' = csv_file

\* C11: scrape_all persists the aggregate once, at the end. No step of the
\* adapter loop changes the rows of the store or the export; a save call is
\* made only when every adapter has been invoked for every keyword, and is
\* handed the whole non-empty aggregate; a run that returns made exactly one
\* save_to_db and one save_to_csv call when the aggregate is non-empty, and
\* neither, with one warning logged, when it is empty.
C11_PersistsOnceAtEnd == [][C11_Step]_vars

C11_Witness ==
    /\ RunReturned
    /\ Len(keywords) = 2
    /\ Len(all_products) >= 2
    /\ Len(persist_calls) = 3
    /\ IsSuffix(Rows(all_products), db_rows)

\* C12: a persistence failure is never swallowed by scrape_all. A persistence
\* call that raised is the last call the run made and the run is over; and
\* scrape_all raises to its caller exactly when its last persistence call
\* raised (an adapter that raised never makes the run raise).
C12_PersistenceFailurePropagates ==
    /\ \A i \in 1..Len(persist_calls) :
          persist_calls[i].raised => i = Len(persist_calls) /\ pc = "idle"
    /\ last.op = "scrape_all" =>
          /\ persist_calls # <<>>
          /\ last.raised <=> persist_calls[Len(persist_calls)].raised

C12_Witness ==
    /\ last.op = "scrape_all"
    /\ last.raised
    /\ RaisingInvocations(invocations) # <<>>
    /\ all_products # <<>>
    /\ Len(persist_calls) = 2
    /\ persist_calls[2] = PersistCall("save_to_db", all_products, TRUE)

\* a step that calls scrape_all with an empty keyword list
EmptyRunStep ==
    /\ pc = "idle"
    /\ pc' # "idle" \/ last'.op = "scrape_all"
    /\ keywords' = <<>>

\* what the empty run does whatever create_tables did
EmptyRunQuiet ==
    /\ pc' = "idle"
    /\ invocations' = <<>>
    /\ all_products' = <<>>
    /\ db_rows' = db_rows
    /\ csv_file' = csv_file
    /\ Len(persist_calls') = 1

\* the command line rejected the empty list: non-zero exit, nothing touched
CliRejected ==
    last'.op = "main" =>
        /\ last'.raised
        /\ UNCHANGED <<db_table, db_rows, csv_file, run_vars>>

C13_OriginalStep ==
    /\ EmptyRunStep => EmptyRunQuiet /\ ~last'.raised
    /\ CliRejected

\* C13 as stated: scrape_all over an empty keyword list performs no fetch,
\* writes nothing to the store or export and returns without error, or the
\* command line rejects the empty list before any network activity.
C13_EmptyRunNoError == [][C13_OriginalStep]_vars

C13_Step ==
    /\ EmptyRunStep =>
          /\ EmptyRunQuiet
          /\ last'.raised <=> persist_calls'[1].raised
          /\ ~last'.raised => Len(WarningEntries(log')) = 1
    /\ CliRejected

\* C13 amended: scrape_all over an empty keyword list performs no fetch and
\* writes no record to the store or export; it returns without error when
\* create_tables succeeded, logging one warning, and raises what
\* create_tables raised otherwise; the command line rejects the empty list
\* with a non-zero exit, before scrape_all is called.
C13_EmptyRunQuietUnlessStoreFails == [][C13_Step]_vars

C13_Witness ==
    /\ pc = "idle"
    /\ last.op = "scrape_all"
    /\ ~last.raised
    /\ keywords = <<>>
    /\ invocations = <<>>
    /\ db_rows # <<>>
    /\ csv_file # <<>>

\* C14: detect_price_anomalies on an empty store. Whenever the detector has
\* just been run on a store that holds no observation, it raised no error and
\* returned the empty result; the step leaves the store as it was.
C14_EmptyStoreEmptyResult ==
    (last.op = "detect_price_anomalies" /\ db_rows = <<>>) =>
        /\ ~last.raised
        /\ last.anomalies = {}

\* C15: concurrent save_to_csv writers on one initially empty export file are
\* serialized: at every moment the file holds at most one header row, and it
\* is the first row of the file (never two headers, never a header after a
\* data row).
C15_HeaderOnlyFirst ==
    \A i \in 1..Len(csv_file) : csv_file[i].kind = "header" => i = 1

\* what the two strategies of a recorded parse_shopee call produce on their own
PrimaryOf(c) == shopee_primary(fetch_page(c.r1).ret, 0)

FallbackOf(c) == shopee_fallback(fetch_page(c.r2).ret, c.max_results, 0)

\* C16: parse_shopee runs its fallback exactly when the primary strategy
\* produced zero records and never when it produced at least one: a call makes
\* two fetches when the primary produced nothing and one otherwise, never
\* more than two, and the records it returns are those of the primary alone
\* or those of the fallback alone.
C16_FallbackIffPrimaryEmpty ==
    call.fn = "parse_shopee" =>
        /\ call.ret.fetches \in {1, 2}
        /\ call.ret.fetches = 2 <=> PrimaryOf(call).results = <<>>
        /\ ~call.ret.raised =>
              \/ call.ret.fetches = 1 /\ call.ret.results = PrimaryOf(call).results
              \/ call.ret.fetches = 2 /\ call.ret.results = FallbackOf(call).results

\* the alerting loop is running (the initial load succeeded)
BotRunning == bot.pc \in {"price", "reviews", "listings", "sleep"}

AnnouncedRight ==
    BotRunning =>
        /\ bot.seen \subseteq distinct_names(db_rows)
        /\ \A n \in BotNames :
              /\ n \in bot.startup => bot.sent[n] = 0
              /\ bot.sent[n] <= 1
              /\ bot.sent[n] = 1 <=> n \in bot.seen \ bot.startup

C17_Step ==
    /\ AnnouncedRight'
    /\ (BotRunning /\ bot'.checks = bot.checks + 1) =>
          bot'.seen = distinct_names(db_rows)
    /\ (BotRunning /\ bot'.aborted = bot.aborted + 1) =>
          bot'.seen = bot.seen /\ bot'.sent = bot.sent

\* C17: the new-listing alerts of the bot loop. A name present in the store
\* at startup is never announced; any other name is announced at most once,
\* by the first check_new_listings that completes after the name appeared
\* (every completed check leaves seen_products equal to the names then in the
\* store, and a name is in seen_products without being a startup name exactly
\* when it was announced once); an iteration aborted by an exception
\* announces nothing and forgets nothing, and a failed send is not retried.
C17_NewListingsAnnouncedOnce == [][C17_Step]_vars

C17_Witness ==
    /\ bot.pc = "sleep"
    /\ bot.startup = {"a"}
    /\ bot.sent["b"] = 1
    /\ "b" \notin bot.delivered
    /\ bot.aborted >= 1
    /\ bot.checks >= 2

====
